---- MODULE Spec2Model ----
(***************************************************************************)
(* Model of bookstore_manager.py: a single-connection SQLite ledger with   *)
(* three tables (member, book, sale) and the four menu operations of       *)
(* main(): add_new_sale/add_sale, print_sale_report, update_sale_record    *)
(* and delete_sale_record.                                                 *)
(*                                                                         *)
(* Text typed at a prompt is a sequence of one-character strings, so that  *)
(* int(), str.strip() and the date pattern are computed, not assumed.      *)
(* The program's messages are Chinese; the model carries an English tag    *)
(* for the fixed part of each message and the formatted number, if any,    *)
(* as the characters the f-string produces.                                *)
(*                                                                         *)
(* The connection is modelled by two copies of the database: db, what the  *)
(* connection reads (its uncommitted writes included), and disk, what is   *)
(* committed.  conn.commit() copies db to disk, conn.rollback() copies     *)
(* disk to db.  A sqlite3.Error raised by a write or by the commit is the  *)
(* input "fault" of an operation.                                          *)
(***************************************************************************)
EXTENDS Integers, Sequences, FiniteSets, TLC

\* Largest value the AUTOINCREMENT counter of table sale may reach.
MaxSales == 6

\* Largest number of lines typed at one integer prompt.
MaxAttempts == 2

VARIABLES db, disk, last

vars == <<db, disk, last>>

\* Python's None, and a returned integer v as <<v>>.
None == <<>>

Some(v) == <<v>>

(***************************************************************************)
(* Text: str.strip(), int(), str() and the "," format.                     *)
(***************************************************************************)
DigitChars == <<"0", "1", "2", "3", "4", "5", "6", "7", "8", "9">>

IsDigit(c) == \E i \in 1..Len(DigitChars) : DigitChars[i] = c

DigitVal(c) == (CHOOSE i \in 1..Len(DigitChars) : DigitChars[i] = c) - 1

IsSpace(c) == c = " "

RECURSIVE LStrip(_)
LStrip(s) ==
    IF s # <<>> /\ IsSpace(Head(s)) THEN LStrip(Tail(s)) ELSE s

RECURSIVE RStrip(_)
RStrip(s) ==
    IF s # <<>> /\ IsSpace(s[Len(s)]) THEN RStrip(SubSeq(s, 1, Len(s) - 1)) ELSE s

Strip(s) == RStrip(LStrip(s))

AllDigits(s) == s # <<>> /\ \A i \in 1..Len(s) : IsDigit(s[i])

RECURSIVE DigitsValue(_)
DigitsValue(s) ==
    IF s = <<>> THEN 0
    ELSE 10 * DigitsValue(SubSeq(s, 1, Len(s) - 1)) + DigitVal(s[Len(s)])

\* int(s): None stands for ValueError.
ParseInt(s) ==
    LET t == Strip(s)
        signed == t # <<>> /\ Head(t) \in {"+", "-"}
        body == IF signed THEN Tail(t) ELSE t
    IN  IF ~AllDigits(body) THEN None
        ELSE IF signed /\ Head(t) = "-" THEN Some(0 - DigitsValue(body))
        ELSE Some(DigitsValue(body))

RECURSIVE NatStr(_)
NatStr(n) ==
    IF n < 10 THEN <<DigitChars[n + 1]>>
    ELSE NatStr(n \div 10) \o <<DigitChars[(n % 10) + 1]>>

\* f"{n}"
Str(n) == IF n < 0 THEN <<"-">> \o NatStr(0 - n) ELSE NatStr(n)

RECURSIVE GroupThousands(_)
GroupThousands(s) ==
    IF Len(s) <= 3 THEN s
    ELSE GroupThousands(SubSeq(s, 1, Len(s) - 3)) \o <<",">> \o SubSeq(s, Len(s) - 2, Len(s))

\* f"{n:,}"
StrComma(n) ==
    IF n < 0 THEN <<"-">> \o GroupThousands(NatStr(0 - n)) ELSE GroupThousands(NatStr(n))

\* re.fullmatch(r"\d{4}-\d{2}-\d{2}", date_str)
is_valid_date(date_str) ==
    /\ Len(date_str) = 10
    /\ \A i \in {1, 2, 3, 4, 6, 7, 9, 10} : IsDigit(date_str[i])
    /\ \A i \in {5, 8} : date_str[i] = "-"

(***************************************************************************)
(* The integer prompts.  lines are the lines typed; a result is            *)
(* [value, rest, eof]: the value returned, the lines left unread, and eof  *)
(* when input() ran out of lines before the loop returned.                 *)
(***************************************************************************)
RECURSIVE get_valid_integer_input(_)
get_valid_integer_input(lines) ==
    IF lines = <<>> THEN [value |-> None, rest |-> <<>>, eof |-> TRUE]
    ELSE IF Head(lines) = <<>>
        THEN [value |-> None, rest |-> Tail(lines), eof |-> FALSE]
    ELSE IF ParseInt(Head(lines)) # None
        THEN [value |-> ParseInt(Head(lines)), rest |-> Tail(lines), eof |-> FALSE]
    ELSE get_valid_integer_input(Tail(lines))

\* Mutant: the quantity prompt takes any integer.
get_valid_positive_integer_input_AnyInteger(lines) == get_valid_integer_input(lines)

RECURSIVE get_valid_positive_integer_input(_)
get_valid_positive_integer_input(lines) ==
    LET r == get_valid_integer_input(lines)
    IN  IF r.eof \/ r.value = None \/ r.value[1] > 0 THEN r
        ELSE get_valid_positive_integer_input(r.rest)

RECURSIVE get_valid_non_negative_integer_input(_)
get_valid_non_negative_integer_input(lines) ==
    LET r == get_valid_integer_input(lines)
    IN  IF r.eof \/ r.value = None \/ r.value[1] >= 0 THEN r
        ELSE get_valid_non_negative_integer_input(r.rest)

\* What may be typed at one integer prompt: 1..MaxAttempts lines of tokens.
Typed(tokens) == UNION {[1..n -> tokens] : n \in 1..MaxAttempts}

QtyTokens ==
    {<<>>, <<"x">>, <<"0">>, <<"-", "3">>, <<"3">>, <<"5", "0">>, <<"5", "1">>}

\* Typed at the discount prompt of add_new_sale.
DiscountTokens == {<<>>, <<"x">>, <<"-", "3">>, <<"5", "0">>}

\* Typed at the discount prompt of update_sale_record.
NewDiscountTokens == {<<>>, <<"x">>, <<"-", "3">>, <<"0">>}

\* The values the quantity prompt of add_new_sale can return.
QtyAnswers ==
    {r.value : r \in {q \in {get_valid_positive_integer_input(ls) : ls \in Typed(QtyTokens)} :
                        ~q.eof /\ q.rest = <<>>}}

\* The values the discount prompt of add_new_sale can return.
DiscountAnswers ==
    {r.value : r \in {q \in {get_valid_non_negative_integer_input(ls) : ls \in Typed(DiscountTokens)} :
                        ~q.eof /\ q.rest = <<>>}}

\* The values the discount prompt of update_sale_record can return.
NewDiscountAnswers ==
    {r.value : r \in {q \in {get_valid_non_negative_integer_input(ls) : ls \in Typed(NewDiscountTokens)} :
                        ~q.eof /\ q.rest = <<>>}}

(***************************************************************************)
(* The database: member and book are keyed by mid and bid, sale by sid;    *)
(* seq is the AUTOINCREMENT counter of sale (table sqlite_sequence).       *)
(***************************************************************************)
EmptyDb == [member |-> <<>>, book |-> <<>>, sale |-> <<>>, seq |-> 0]

SetMax(S) == CHOOSE m \in S : \A x \in S : x <= m

SetMin(S) == CHOOSE m \in S : \A x \in S : m <= x

\* sid INTEGER PRIMARY KEY AUTOINCREMENT: one more than every rowid ever used.
NextSid(d) == SetMax({d.seq} \cup DOMAIN d.sale) + 1

\* INSERT INTO sale(sdate,mid,bid,sqty,sdiscount,stotal) VALUES(...)
InsertSale(d, sdate, mid, bid, sqty, sdiscount, stotal) ==
    LET sid == NextSid(d)
        row == [sdate |-> sdate, mid |-> mid, bid |-> bid, sqty |-> sqty,
                sdiscount |-> sdiscount, stotal |-> stotal]
    IN  [d EXCEPT !.sale = (sid :> row) @@ d.sale, !.seq = sid]

\* Mutant: the UPDATE of book is left out.
DecrementStock_Missing(d, sqty, bid) == d

\* UPDATE book SET bstock=bstock-? WHERE bid=?
DecrementStock(d, sqty, bid) ==
    [d EXCEPT !.book = [k \in DOMAIN d.book |->
        IF k = bid THEN [d.book[k] EXCEPT !.bstock = @ - sqty] ELSE d.book[k]]]

\* Mutant: the UPDATE sets the discount and leaves the total.
UpdateSale_DiscountOnly(d, new_discount, new_total, sid) ==
    [d EXCEPT !.sale = [k \in DOMAIN d.sale |->
        IF k = sid THEN [d.sale[k] EXCEPT !.sdiscount = new_discount] ELSE d.sale[k]]]

\* UPDATE sale SET sdiscount=?, stotal=? WHERE sid=?
UpdateSale(d, new_discount, new_total, sid) ==
    [d EXCEPT !.sale = [k \in DOMAIN d.sale |->
        IF k = sid THEN [d.sale[k] EXCEPT !.sdiscount = new_discount, !.stotal = new_total]
        ELSE d.sale[k]]]

\* Mutant: the delete gives the sold quantity back to the book.
DeleteSale_Restock(d, sid) ==
    [d EXCEPT !.sale = [k \in DOMAIN d.sale \ {sid} |-> d.sale[k]],
              !.book = [b \in DOMAIN d.book |->
                  IF b = d.sale[sid].bid
                  THEN [d.book[b] EXCEPT !.bstock = @ + d.sale[sid].sqty]
                  ELSE d.book[b]]]

\* DELETE FROM sale WHERE sid=?
DeleteSale(d, sid) ==
    [d EXCEPT !.sale = [k \in DOMAIN d.sale \ {sid} |-> d.sale[k]]]

\* conn.commit(): the connection's writes become the committed database.
Commit(view, committed) == [db |-> view, disk |-> view]

\* Mutant: the except branch does not roll back.
Rollback_Missing(view, committed) == [db |-> view, disk |-> committed]

\* conn.rollback(): the connection's uncommitted writes are discarded.
Rollback(view, committed) == [db |-> committed, disk |-> committed]

SeedMembers ==
    ("M001" :> [mname |-> "Alice", mphone |-> "0912-345678", memail |-> "alice@example.com"])
    @@ ("M002" :> [mname |-> "Bob", mphone |-> "0923-456789", memail |-> "bob@example.com"])
    @@ ("M003" :> [mname |-> "Cathy", mphone |-> "0934-567890", memail |-> "cathy@example.com"])

SeedBooks ==
    ("B001" :> [btitle |-> "Python Programming", bprice |-> 600, bstock |-> 50])
    @@ ("B002" :> [btitle |-> "Data Science Basics", bprice |-> 800, bstock |-> 30])
    @@ ("B003" :> [btitle |-> "Machine Learning Guide", bprice |-> 1200, bstock |-> 20])

\* '2024-01-dd'
SeedDate(d1, d2) == <<"2", "0", "2", "4", "-", "0", "1", "-", d1, d2>>

SeedSales ==
    << [sdate |-> SeedDate("1", "5"), mid |-> "M001", bid |-> "B001", sqty |-> 2, sdiscount |-> 100, stotal |-> 1100],
       [sdate |-> SeedDate("1", "6"), mid |-> "M002", bid |-> "B002", sqty |-> 1, sdiscount |-> 50, stotal |-> 750],
       [sdate |-> SeedDate("1", "7"), mid |-> "M001", bid |-> "B003", sqty |-> 1, sdiscount |-> 0, stotal |-> 1200],
       [sdate |-> SeedDate("1", "8"), mid |-> "M003", bid |-> "B001", sqty |-> 1, sdiscount |-> 0, stotal |-> 600],
       [sdate |-> SeedDate("1", "9"), mid |-> "M002", bid |-> "B003", sqty |-> 2, sdiscount |-> 150, stotal |-> 2250] >>

RECURSIVE InsertSales(_, _)
InsertSales(d, rows) ==
    IF rows = <<>> THEN d
    ELSE InsertSales(InsertSale(d, Head(rows).sdate, Head(rows).mid, Head(rows).bid,
                                Head(rows).sqty, Head(rows).sdiscount, Head(rows).stotal),
                     Tail(rows))

\* Each table is seeded when it holds no row.
initialize_db(d) ==
    LET d1 == IF Cardinality(DOMAIN d.member) = 0 THEN [d EXCEPT !.member = SeedMembers] ELSE d
        d2 == IF Cardinality(DOMAIN d1.book) = 0 THEN [d1 EXCEPT !.book = SeedBooks] ELSE d1
    IN  IF Cardinality(DOMAIN d2.sale) = 0 THEN InsertSales(d2, SeedSales) ELSE d2

(***************************************************************************)
(* Messages (English tags of the program's texts).                         *)
(***************************************************************************)
MsgInvalidIds == <<"error: member id or book id is invalid">>

MsgInsufficientStock(bstock) ==
    <<"error: insufficient book stock (remaining ">> \o Str(bstock) \o <<")">>

MsgSaleAdded(total) ==
    <<"sale record added! (sale total: ">> \o StrComma(total) \o <<")">>

MsgDbError == <<"=> database operation error">>

MsgBadDate == <<"=> error: wrong date format">>

MsgNothingToUpdate == <<"=> no sale record to update.">>

MsgNothingToDelete == <<"=> no sale record to delete.">>

MsgBadNumber == <<"=> error: please enter a valid number">>

MsgUpdated(sid, new_total) ==
    <<"=> sale id ">> \o Str(sid) \o <<" updated! (sale total: ">> \o StrComma(new_total) \o <<")">>

MsgUpdateFailed == <<"=> update failed, try again later.">>

MsgDeleted(sid) == <<"=> sale id ">> \o Str(sid) \o <<" deleted">>

MsgDeleteFailed == <<"=> delete failed, try again later.">>

\* print(f"=> {msg}")
Printed(msg) == <<"=> ">> \o msg

(***************************************************************************)
(* The operations.  Each returns [db, disk, last]: the two copies of the   *)
(* database after the call and the record of what the call was given and   *)
(* what it returned or printed.                                            *)
(***************************************************************************)
NoDate == <<>>

\* The fields of last that an operation leaves at their defaults.
Idle ==
    [op |-> "main", called |-> FALSE, sdate |-> NoDate, mid |-> "", bid |-> "",
     sqty |-> 0, sdiscount |-> 0, choice |-> <<>>, idx |-> 0, sid |-> 0, fault |-> "none",
     ok |-> FALSE, out |-> <<>>, report |-> <<>>]

\* The statements of add_sale that write, in order; "none": no sqlite3.Error.
AddFaults == {"none", "insert", "update", "commit"}

UpdateFaults == {"none", "update", "commit"}

DeleteFaults == {"none", "delete", "commit"}

\* Mutant: only the book is looked up.
IdsInvalid_BookOnly(ok1, b) == ~b

\* if not ok1 or not b
IdsInvalid(ok1, b) == ~ok1 \/ ~b

\* Mutant: the stock is never found insufficient.
InsufficientStock_Never(bstock, sqty) == bstock < 0

\* if b['bstock'] < sqty
InsufficientStock(bstock, sqty) == bstock < sqty

\* Mutant: the discount is taken off every copy.
SaleTotal_PerCopy(bprice, sqty, sdiscount) == (bprice - sdiscount) * sqty

\* total = b['bprice'] * sqty - sdiscount
SaleTotal(bprice, sqty, sdiscount) == bprice * sqty - sdiscount

\* new_total = price * sale['sqty'] - new_discount
NewTotal(price, sqty, new_discount) == price * sqty - new_discount

\* add_sale: [db, disk, ok, msg, fault], fault being the error that was raised.
add_sale(view, committed, sdate, mid, bid, sqty, sdiscount, fault) ==
    LET ok1 == mid \in DOMAIN view.member
        b == bid \in DOMAIN view.book
        bstock == view.book[bid].bstock
        total == SaleTotal(view.book[bid].bprice, sqty, sdiscount)
        inserted == InsertSale(view, sdate, mid, bid, sqty, sdiscount, total)
        updated == DecrementStock(inserted, sqty, bid)
        raised(v) == Rollback(v, committed) @@ [ok |-> FALSE, msg |-> MsgDbError, fault |-> fault]
    IN  IF IdsInvalid(ok1, b)
            THEN [db |-> view, disk |-> committed, ok |-> FALSE, msg |-> MsgInvalidIds, fault |-> "none"]
        ELSE IF InsufficientStock(bstock, sqty)
            THEN [db |-> view, disk |-> committed, ok |-> FALSE,
                  msg |-> MsgInsufficientStock(bstock), fault |-> "none"]
        ELSE IF fault = "insert" THEN raised(view)
        ELSE IF fault = "update" THEN raised(inserted)
        ELSE IF fault = "commit" THEN raised(updated)
        ELSE Commit(updated, committed) @@ [ok |-> TRUE, msg |-> MsgSaleAdded(total), fault |-> "none"]

\* add_new_sale: sqty and sdiscount are what the two prompts returned.
add_new_sale(view, committed, sdate, mid, bid, sqty, sdiscount, fault) ==
    LET same == [db |-> view, disk |-> committed]
        r == add_sale(view, committed, sdate, mid, bid, sqty[1], sdiscount[1], fault)
    IN  IF ~is_valid_date(sdate)
            THEN same @@ [last |-> [Idle EXCEPT !.op = "add_new_sale", !.out = MsgBadDate]]
        ELSE IF sqty = None \/ sdiscount = None
            THEN same @@ [last |-> [Idle EXCEPT !.op = "add_new_sale"]]
        ELSE [db |-> r.db, disk |-> r.disk,
              last |-> [Idle EXCEPT !.op = "add_new_sale", !.called = TRUE, !.sdate = sdate,
                                    !.mid = mid, !.bid = bid, !.sqty = sqty[1],
                                    !.sdiscount = sdiscount[1], !.fault = r.fault,
                                    !.ok = r.ok, !.out = Printed(r.msg)]]

\* Mutant: ORDER BY s.sid DESC
RECURSIVE OrderBySid_Desc(_)
OrderBySid_Desc(sids) ==
    IF sids = {} THEN <<>>
    ELSE <<SetMax(sids)>> \o OrderBySid_Desc(sids \ {SetMax(sids)})

\* ORDER BY s.sid
RECURSIVE OrderBySid(_)
OrderBySid(sids) ==
    IF sids = {} THEN <<>>
    ELSE <<SetMin(sids)>> \o OrderBySid(sids \ {SetMin(sids)})

\* SELECT s.sid, ... FROM sale s JOIN member m ON s.mid=m.mid ORDER BY s.sid
SalesWithMember(d) ==
    OrderBySid({s \in DOMAIN d.sale : d.sale[s].mid \in DOMAIN d.member})

\* The SELECT of print_sale_report: sale JOIN member JOIN book ORDER BY s.sid
SaleReport(d) ==
    LET sids == OrderBySid({s \in DOMAIN d.sale :
                                /\ d.sale[s].mid \in DOMAIN d.member
                                /\ d.sale[s].bid \in DOMAIN d.book})
    IN  [i \in 1..Len(sids) |->
            [sid |-> sids[i], sdate |-> d.sale[sids[i]].sdate,
             mname |-> d.member[d.sale[sids[i]].mid].mname,
             btitle |-> d.book[d.sale[sids[i]].bid].btitle,
             bprice |-> d.book[d.sale[sids[i]].bid].bprice,
             sqty |-> d.sale[sids[i]].sqty, sdiscount |-> d.sale[sids[i]].sdiscount,
             stotal |-> d.sale[sids[i]].stotal]]

print_sale_report(view, committed) ==
    [db |-> view, disk |-> committed,
     last |-> [Idle EXCEPT !.op = "print_sale_report", !.called = TRUE, !.report = SaleReport(view)]]

\* Mutant: an index beyond the list is taken as the last of the list.
ChosenIndex_Clamped(choice, sales) ==
    LET idx == ParseInt(choice)
    IN  IF idx = None THEN None
        ELSE IF idx[1] < 1 THEN None
        ELSE IF idx[1] > Len(sales) THEN Some(Len(sales))
        ELSE idx

\* The list index typed at "choose the sale": None when it is not a number
\* or not in 1..len(sales).
ChosenIndex(choice, sales) ==
    LET idx == ParseInt(choice)
    IN  IF idx = None THEN None
        ELSE IF idx[1] < 1 \/ idx[1] > Len(sales) THEN None
        ELSE idx

\* update_sale_record: choice is the line typed at the list prompt,
\* new_discount what the discount prompt returned.
update_sale_record(view, committed, choice, new_discount, fault) ==
    LET same == [db |-> view, disk |-> committed]
        none == [Idle EXCEPT !.op = "update_sale_record"]
        me == [none EXCEPT !.choice = choice]
        sales == SalesWithMember(view)
        idx == ChosenIndex(Strip(choice), sales)
        sid == sales[idx[1]]
        sale == view.sale[sid]
        price == view.book[sale.bid].bprice
        new_total == NewTotal(price, sale.sqty, new_discount[1])
        updated == UpdateSale(view, new_discount[1], new_total, sid)
        call == [me EXCEPT !.called = TRUE, !.idx = idx[1], !.sid = sid,
                           !.sdiscount = new_discount[1], !.fault = fault]
        raised(v) == Rollback(v, committed) @@ [last |-> [call EXCEPT !.out = MsgUpdateFailed]]
    IN  IF sales = <<>> THEN same @@ [last |-> [none EXCEPT !.out = MsgNothingToUpdate]]
        ELSE IF Strip(choice) = <<>> THEN same @@ [last |-> me]
        ELSE IF idx = None THEN same @@ [last |-> [me EXCEPT !.out = MsgBadNumber]]
        ELSE IF new_discount = None THEN same @@ [last |-> [me EXCEPT !.idx = idx[1], !.sid = sid]]
        ELSE IF fault = "update" THEN raised(view)
        ELSE IF fault = "commit" THEN raised(updated)
        ELSE Commit(updated, committed)
                @@ [last |-> [call EXCEPT !.ok = TRUE, !.out = MsgUpdated(sid, new_total)]]

\* delete_sale_record: choice is the line typed at the list prompt.
delete_sale_record(view, committed, choice, fault) ==
    LET same == [db |-> view, disk |-> committed]
        none == [Idle EXCEPT !.op = "delete_sale_record"]
        me == [none EXCEPT !.choice = choice]
        sales == SalesWithMember(view)
        idx == ChosenIndex(Strip(choice), sales)
        sid == sales[idx[1]]
        deleted == DeleteSale(view, sid)
        call == [me EXCEPT !.called = TRUE, !.idx = idx[1], !.sid = sid, !.fault = fault]
        raised(v) == Rollback(v, committed) @@ [last |-> [call EXCEPT !.out = MsgDeleteFailed]]
    IN  IF sales = <<>> THEN same @@ [last |-> [none EXCEPT !.out = MsgNothingToDelete]]
        ELSE IF Strip(choice) = <<>> THEN same @@ [last |-> me]
        ELSE IF idx = None THEN same @@ [last |-> [me EXCEPT !.out = MsgBadNumber]]
        ELSE IF fault = "delete" THEN raised(view)
        ELSE IF fault = "commit" THEN raised(deleted)
        ELSE Commit(deleted, committed)
                @@ [last |-> [call EXCEPT !.ok = TRUE, !.out = MsgDeleted(sid)]]

(***************************************************************************)
(* What is typed at the menu's prompts.                                    *)
(***************************************************************************)
\* '2024-02-01', and '2024-2-1', which is_valid_date rejects
DateInputs ==
    {<<"2", "0", "2", "4", "-", "0", "2", "-", "0", "1">>, <<"2", "0", "2", "4", "-", "2", "-", "1">>}

MidInputs == {"M001", "M999"}

BidInputs == {"B001", "B999"}

\* Typed at the list prompt: nothing, no number, ' 2 ', '0', '1', '5', '6', '7'.
ChoiceInputs ==
    {<<>>, <<"x">>, <<" ", "2", " ">>, <<"0">>, <<"1">>, <<"5">>, <<"6">>, <<"7">>}

\* A prompt that is not reached reads nothing, and a statement that is not
\* executed raises nothing: the input is then the one value unread.
Reached(reached, inputs, unread) == IF reached THEN inputs ELSE {unread}

(***************************************************************************)
(* The state machine: main() opens the connection, runs initialize_db and  *)
(* then serves one menu choice after another.                              *)
(***************************************************************************)
Init ==
    /\ db = initialize_db(EmptyDb)
    /\ disk = db
    /\ last = Idle

Step(r) ==
    /\ db' = r.db
    /\ disk' = r.disk
    /\ last' = r.last

\* add_sale gets as far as its INSERT.
AddWrites(d, mid, bid, sqty) ==
    /\ sqty # None
    /\ ~IdsInvalid(mid \in DOMAIN d.member, bid \in DOMAIN d.book)
    /\ ~InsufficientStock(d.book[bid].bstock, sqty[1])

\* The model stops creating sales once the counter of sale is at MaxSales.
AddNewSale ==
    \E sdate \in DateInputs :
    \E mid \in Reached(is_valid_date(sdate), MidInputs, "") :
    \E bid \in Reached(is_valid_date(sdate), BidInputs, "") :
    \E sqty \in Reached(is_valid_date(sdate), QtyAnswers, None) :
    \E sdiscount \in Reached(sqty # None, DiscountAnswers, None) :
    \E fault \in Reached(sdiscount # None /\ AddWrites(db, mid, bid, sqty), AddFaults, "none") :
        /\ add_new_sale(db, disk, sdate, mid, bid, sqty, sdiscount, fault).db.seq <= MaxSales
        /\ Step(add_new_sale(db, disk, sdate, mid, bid, sqty, sdiscount, fault))

PrintSaleReport == Step(print_sale_report(db, disk))

UpdateSaleRecord ==
    \E choice \in Reached(SalesWithMember(db) # <<>>, ChoiceInputs, <<>>) :
    \E new_discount \in Reached(ChosenIndex(Strip(choice), SalesWithMember(db)) # None,
                                NewDiscountAnswers, None) :
    \E fault \in Reached(new_discount # None, UpdateFaults, "none") :
        Step(update_sale_record(db, disk, choice, new_discount, fault))

DeleteSaleRecord ==
    \E choice \in Reached(SalesWithMember(db) # <<>>, ChoiceInputs, <<>>) :
    \E fault \in Reached(ChosenIndex(Strip(choice), SalesWithMember(db)) # None,
                         DeleteFaults, "none") :
        Step(delete_sale_record(db, disk, choice, fault))

Next == AddNewSale \/ PrintSaleReport \/ UpdateSaleRecord \/ DeleteSaleRecord

Spec == Init /\ [][Next]_vars

(***************************************************************************)
(* Properties.  A step of the menu loop is read off last', the record of   *)
(* the operation that made it; db and disk are the database before the     *)
(* step, db' and disk' after it.                                           *)
(***************************************************************************)
StoreUnchanged == db' = db /\ disk' = disk

\* The rows of sale other than sid are the same before and after the step.
OtherSalesSame(sid) ==
    /\ DOMAIN db'.sale \ {sid} = DOMAIN db.sale \ {sid}
    /\ \A s \in DOMAIN db.sale \ {sid} : db'.sale[s] = db.sale[s]

\* The step is a call add_sale(conn, sdate, mid, bid, sqty, sdiscount).
CreateRequest == last'.op = "add_new_sale" /\ last'.called

\* C1: a create-sale request with an existing member and book and with
\* 0 < quantity <= stock succeeds (no storage error being raised): the
\* book's stock is lowered by the quantity, exactly one sale row is added,
\* and its total is the book's price times the quantity minus the discount.
C1_CreateSale ==
    [][(/\ CreateRequest
        /\ last'.fault = "none"
        /\ last'.mid \in DOMAIN db.member
        /\ last'.bid \in DOMAIN db.book
        /\ last'.sqty > 0
        /\ last'.sqty <= db.book[last'.bid].bstock)
       => (/\ last'.ok
           /\ db'.book[last'.bid].bstock = db.book[last'.bid].bstock - last'.sqty
           /\ \E sid \in DOMAIN db'.sale \ DOMAIN db.sale :
                /\ DOMAIN db'.sale = DOMAIN db.sale \cup {sid}
                /\ OtherSalesSame(sid)
                /\ db'.sale[sid].mid = last'.mid
                /\ db'.sale[sid].bid = last'.bid
                /\ db'.sale[sid].sqty = last'.sqty
                /\ db'.sale[sid].sdiscount = last'.sdiscount
                /\ db'.sale[sid].stotal =
                      db.book[last'.bid].bprice * last'.sqty - last'.sdiscount
           /\ disk' = db')]_vars

\* C1's case: 3 x B001 (price 600, stock 50) with discount 50 was sold for
\* 1,750 and the stock is 47.
C1_Witness ==
    /\ last.op = "add_new_sale" /\ last.ok
    /\ last.bid = "B001" /\ last.sqty = 3 /\ last.sdiscount = 50
    /\ db.book["B001"].bstock = 47
    /\ db.sale[db.seq].stotal = 1750
    /\ last.out = <<"=> ", "sale record added! (sale total: ", "1", ",", "7", "5", "0", ")">>

\* C2: a create-sale request for an existing member and book with
\* quantity > stock fails, its message carries the book's stock, and the
\* books and the sale rows are unchanged.
C2_InsufficientStock ==
    [][(/\ CreateRequest
        /\ last'.mid \in DOMAIN db.member
        /\ last'.bid \in DOMAIN db.book
        /\ last'.sqty > db.book[last'.bid].bstock)
       => (/\ ~last'.ok
           /\ last'.out[2] = "error: insufficient book stock (remaining "
           /\ ParseInt(SubSeq(last'.out, 3, Len(last'.out) - 1))
                 = Some(db.book[last'.bid].bstock)
           /\ StoreUnchanged)]_vars

\* C2's case: after 3 of the 50 B001 were sold, a request for 50 is refused
\* with "remaining 47".
C2_Witness ==
    /\ last.op = "add_new_sale" /\ last.called /\ ~last.ok
    /\ last.bid = "B001" /\ last.sqty = 50
    /\ db.book["B001"].bstock = 47
    /\ last.out = <<"=> ", "error: insufficient book stock (remaining ", "4", "7", ")">>

\* C3: a create-sale request whose member or book identifier does not
\* exist fails with the invalid-identifier (not found) message whatever the
\* quantity and discount, and leaves members, books and sales unchanged.
C3_UnknownIds ==
    [][(/\ CreateRequest
        /\ (last'.mid \notin DOMAIN db.member \/ last'.bid \notin DOMAIN db.book))
       => (/\ ~last'.ok
           /\ last'.out = Printed(MsgInvalidIds)
           /\ StoreUnchanged)]_vars

\* C3's case: an unknown member asked for more than the stock of an
\* existing book and was refused as unknown.
C3_Witness ==
    /\ last.op = "add_new_sale" /\ last.called /\ ~last.ok
    /\ last.mid = "M999" /\ last.bid = "B001" /\ last.sqty = 51
    /\ last.out = <<"=> ", "error: member id or book id is invalid">>

\* The step is an UPDATE of a selected sale with a discount that was given.
UpdateRequest == last'.op = "update_sale_record" /\ last'.called

\* C4: updating the discount of an existing sale with a discount >= 0 (no
\* storage error being raised) sets the sale's discount to it and the total
\* to the book's current price times the sale's quantity minus it; quantity,
\* date, member and book of the sale, and all else, stay as they were.
C4_UpdateDiscount ==
    [][(UpdateRequest /\ last'.fault = "none")
       => (/\ last'.ok
           /\ last'.sdiscount >= 0
           /\ last'.sid \in DOMAIN db.sale
           /\ last'.sid = SalesWithMember(db)[last'.idx]
           /\ db'.sale[last'.sid] =
                 [sdate |-> db.sale[last'.sid].sdate,
                  mid |-> db.sale[last'.sid].mid,
                  bid |-> db.sale[last'.sid].bid,
                  sqty |-> db.sale[last'.sid].sqty,
                  sdiscount |-> last'.sdiscount,
                  stotal |-> db.book[db.sale[last'.sid].bid].bprice * db.sale[last'.sid].sqty
                                - last'.sdiscount]
           /\ OtherSalesSame(last'.sid)
           /\ DOMAIN db'.sale = DOMAIN db.sale
           /\ db'.book = db.book /\ db'.member = db.member /\ db'.seq = db.seq
           /\ disk' = db')]_vars

\* C4's case: the sale of 3 x B001 at 600 was updated to discount 0 and its
\* total is 1,800.
C4_Witness ==
    /\ last.op = "update_sale_record" /\ last.ok /\ last.sdiscount = 0
    /\ last.sid = 6
    /\ db.sale[6].bid = "B001" /\ db.sale[6].sqty = 3 /\ db.sale[6].stotal = 1800
    /\ last.out = <<"=> sale id ", "6", " updated! (sale total: ", "1", ",", "8", "0", "0", ")">>

\* The step is a DELETE of a selected sale.
DeleteRequest == last'.op = "delete_sale_record" /\ last'.called

\* C5: deleting an existing sale (no storage error being raised) removes
\* that row and nothing else: the other sale rows, the members and the
\* books, the stock of the book sold included, are as before.
C5_DeleteSale ==
    [][(DeleteRequest /\ last'.fault = "none")
       => (/\ last'.ok
           /\ last'.sid \in DOMAIN db.sale
           /\ last'.sid = SalesWithMember(db)[last'.idx]
           /\ DOMAIN db'.sale = DOMAIN db.sale \ {last'.sid}
           /\ OtherSalesSame(last'.sid)
           /\ db'.book = db.book /\ db'.member = db.member
           /\ disk' = db')]_vars

\* C5's case: the sale of 3 x B001 was deleted and the stock of B001 is
\* still 47.
C5_Witness ==
    /\ last.op = "delete_sale_record" /\ last.ok /\ last.sid = 6
    /\ 6 \notin DOMAIN db.sale
    /\ db.book["B001"].bstock = 47
    /\ Cardinality(DOMAIN db.sale) = 5

\* The error kind of a printed message: "please enter a valid number" and
\* "wrong date format" report invalid input, "member id or book id is
\* invalid" an identifier that was not found.
ErrorKind(out) ==
    IF out = Printed(MsgInvalidIds) THEN "NotFound"
    ELSE IF out \in {MsgBadNumber, MsgBadDate} THEN "InvalidInput"
    ELSE IF out \in {Printed(MsgDbError), MsgUpdateFailed, MsgDeleteFailed} THEN "StorageFailure"
    ELSE IF out # <<>> /\ out[1] = "=> " /\ out[2] = MsgInsufficientStock(0)[1] THEN "InsufficientStock"
    ELSE "None"

\* The step is an update or delete whose typed selection is not blank and
\* is not the list index of a sale.
BadSelection ==
    /\ last'.op \in {"update_sale_record", "delete_sale_record"}
    /\ Strip(last'.choice) # <<>>
    /\ \/ ParseInt(last'.choice) = None
       \/ ParseInt(last'.choice)[1] \notin 1..Cardinality(DOMAIN db.sale)

\* C6 as claimed: an update or delete whose selection references no
\* existing sale fails with a not-found error and leaves the store unchanged.
C6_Original ==
    [][BadSelection => (ErrorKind(last'.out) = "NotFound" /\ StoreUnchanged)]_vars

\* C6 as amended: an update or delete whose typed selection is not the list
\* index of a sale is refused with the invalid-input message "please enter
\* a valid number" and leaves the store unchanged.
C6_BadSelection ==
    [][BadSelection
       => (/\ ~last'.ok /\ ~last'.called
           /\ last'.out = MsgBadNumber
           /\ ErrorKind(last'.out) = "InvalidInput"
           /\ StoreUnchanged)]_vars

\* C6's case: with sale 1 deleted and four sales listed, '5' was typed at
\* the list prompt of update_sale_record and was refused.
C6_Witness ==
    /\ last.op = "update_sale_record" /\ last.choice = <<"5">>
    /\ DOMAIN db.sale = {2, 3, 4, 5}
    /\ last.out = <<"=> error: please enter a valid number">>

\* A sale row is added exactly when a book's stock is lowered, by the
\* quantity of the row.
RowWithStock ==
    LET new == DOMAIN db'.sale \ DOMAIN db.sale
    IN  IF new = {} THEN db'.book = db.book
        ELSE \E s \in new :
                /\ new = {s}
                /\ db'.book = [b \in DOMAIN db.book |->
                      IF b = db'.sale[s].bid
                      THEN [db.book[b] EXCEPT !.bstock = @ - db'.sale[s].sqty]
                      ELSE db.book[b]]

\* C7: every operation is atomic: it leaves nothing uncommitted behind; when
\* a write or the commit raises a storage error the operation reports an
\* error and the store is as before; and no step adds a sale row without
\* lowering the stock, or lowers the stock without adding the row.
C7_Atomic ==
    /\ [](db = disk)
    /\ [][/\ db' = disk'
          /\ last'.fault # "none"
                => (/\ StoreUnchanged
                    /\ ~last'.ok
                    /\ ErrorKind(last'.out) = "StorageFailure")
          /\ RowWithStock]_vars

\* C7's case: the UPDATE of book raised after the INSERT of the sale, and
\* neither the row nor the counter of sale is there.
C7_Witness ==
    /\ last.op = "add_new_sale" /\ last.fault = "update"
    /\ db.seq = 5 /\ DOMAIN db.sale = 1..5
    /\ db.book["B001"].bstock = 50
    /\ disk = db

\* total = price x quantity - discount in every row of sale.
TotalsRight(d) ==
    \A s \in DOMAIN d.sale :
        d.sale[s].stotal = d.book[d.sale[s].bid].bprice * d.sale[s].sqty - d.sale[s].sdiscount

\* C8: in every reachable state every sale row, seeded, created or amended,
\* has total = its book's current price x its quantity - its discount.
C8_Totals == TotalsRight(db) /\ TotalsRight(disk)

\* C8's case: a seed row, an amended seed row and a created row together.
C8_Witness ==
    /\ DOMAIN db.sale = 1..6
    /\ db.sale[1].sdiscount = 0 /\ db.sale[1].stotal = 1200
    /\ db.sale[5].sdiscount = 150 /\ db.sale[5].stotal = 2250
    /\ db.sale[6].sqty = 3 /\ db.sale[6].stotal = 1750

\* C9: print_sale_report changes nothing and lists every sale once, in
\* ascending sid order, with its member's name and its book's title and
\* price (an empty list when there is no sale); and a sale just created has
\* a larger sid than every other and is the last of the listing.
C9_Report ==
    [][/\ last'.op = "print_sale_report"
          => (/\ StoreUnchanged
              /\ Len(last'.report) = Cardinality(DOMAIN db.sale)
              /\ {last'.report[i].sid : i \in 1..Len(last'.report)} = DOMAIN db.sale
              /\ \A i, j \in 1..Len(last'.report) :
                    i < j => last'.report[i].sid < last'.report[j].sid
              /\ \A i \in 1..Len(last'.report) :
                    LET row == last'.report[i]
                        sale == db.sale[row.sid]
                    IN  /\ row.mname = db.member[sale.mid].mname
                        /\ row.btitle = db.book[sale.bid].btitle
                        /\ row.bprice = db.book[sale.bid].bprice
                        /\ row.sdate = sale.sdate /\ row.sqty = sale.sqty
                        /\ row.sdiscount = sale.sdiscount /\ row.stotal = sale.stotal)
       /\ (last'.op = "add_new_sale" /\ last'.ok)
          => \A s \in DOMAIN db'.sale \ DOMAIN db.sale :
                /\ \A t \in DOMAIN db.sale : t < s
                /\ SaleReport(db')[Len(SaleReport(db'))].sid = s]_vars

\* C9's case: sale 1 was deleted and a sale created; the listing has five
\* rows and ends with the new one, joined with Alice and the book's title.
C9_Witness ==
    /\ last.op = "print_sale_report"
    /\ DOMAIN db.sale = {2, 3, 4, 5, 6}
    /\ Len(last.report) = 5
    /\ last.report[1].sid = 2
    /\ last.report[5].sid = 6
    /\ last.report[5].mname = "Alice"
    /\ last.report[5].btitle = "Python Programming"
    /\ last.report[5].bprice = 600

\* C10: every book's stock is a non-negative integer in every state, and a
\* step changes a stock only when it is a successful create-sale, which
\* lowers the stock of its book by its quantity, a positive one.
C10_Stock ==
    /\ [](\A b \in DOMAIN db.book : db.book[b].bstock \in Nat)
    /\ [][/\ \A b \in DOMAIN db.book : db'.book[b].bstock <= db.book[b].bstock
          /\ DOMAIN db'.book = DOMAIN db.book
          /\ db'.book # db.book
                => (/\ last'.op = "add_new_sale" /\ last'.ok
                    /\ last'.sqty > 0
                    /\ \A b \in DOMAIN db.book :
                          db'.book[b] =
                             IF b = last'.bid
                             THEN [db.book[b] EXCEPT !.bstock = @ - last'.sqty]
                             ELSE db.book[b])]_vars

\* C10's case: all 50 B001 were sold in one sale and the stock is 0.
C10_Witness ==
    /\ last.op = "add_new_sale" /\ last.ok /\ last.sqty = 50
    /\ db.book["B001"].bstock = 0

====
